---------------------------- MODULE Spec2Model ----------------------------
(***************************************************************************)
(* A model of the ZenML glue code:                                         *)
(*   - steps/utils.py          _FunctionExecutor.Do, generate_component    *)
(*   - mlflow/mlflow_utils.py  setup_mlflow, get_or_create_mlflow_run      *)
(*   - config/base_config.py   BaseConfig                                  *)
(*   - tests/integration/conftest.py  the profile fixtures                 *)
(*                                                                         *)
(* Python values are modelled as strings ("None", "int:1", "str:1", ...),  *)
(* dicts as functions over a finite set of keys, lists as sequences.       *)
(***************************************************************************)
EXTENDS Naturals, Sequences, FiniteSets, TLC

VARIABLES
    \* _FunctionExecutor.Do
    pc,          \* "idle" before a call of Do, "done" after it
    call,        \* the arguments of the last call of Do
    res,         \* what the last call of Do did
    \* mlflow_utils
    tracking_uri,  \* per process: mlflow's tracking URI (a module global)
    experiments,   \* per tracking URI: the experiments of that backend
    runs,          \* the runs of all backends
    dirs,          \* the directories that exist on the local file system
    setup,         \* per process: its last call of setup_mlflow
    mlpc,          \* per process: its place in get_or_create_mlflow_run
    mlargs,        \* per process: the arguments of that call
    found,         \* per process: runs[0].info.run_id of its search, 0 if none
    mlret,         \* the last call of get_or_create_mlflow_run that ended
    \* BaseConfig
    attrs,         \* per instance: its attribute dict, NotConstructed before __init__
    files,         \* per path: the content of the file, NoFile if there is none
    lastOp,        \* the last constructor call or attribute assignment
    \* tests/integration/conftest.py
    fxpc,          \* where the test session is
    active_stack,  \* Repository().active_stack
    provisioned,   \* whether the kubeflow stack's resources are provisioned
    stored,        \* per stack: what its artifact and metadata stores hold
    path_exists,   \* per stack: whether os.path.exists(artifact_store.path)
    received,      \* what the stores held when the fixture yielded
    \* generate_component
    step,          \* the step handed to generate_component
    component,     \* the component class it returned
    module_attrs   \* the attributes set on the step's module

doVars == <<pc, call, res>>

mlVars == <<tracking_uri, experiments, runs, dirs, setup, mlpc, mlargs, found,
            mlret>>

cfgVars == <<attrs, files, lastOp>>

fxVars == <<fxpc, active_stack, provisioned, stored, path_exists, received>>

genVars == <<step, component, module_attrs>>

notDo == <<mlVars, cfgVars, fxVars, genVars>>
notMl == <<doVars, cfgVars, fxVars, genVars>>
notCfg == <<doVars, mlVars, fxVars, genVars>>
notFx == <<doVars, mlVars, cfgVars, genVars>>
notGen == <<doVars, mlVars, cfgVars, fxVars>>

vars == <<doVars, mlVars, cfgVars, fxVars, genVars>>

-----------------------------------------------------------------------------
(* Bounds *)

\* the longest artifact list a channel holds
MaxChanLen == 2

\* the most runs the tracking backends hold together
MaxRuns == 3

-----------------------------------------------------------------------------
(* Python helpers *)

None == "None"

\* all dicts with keys among K and values in V
Dicts(K, V) == UNION {[D -> V] : D \in SUBSET K}

EmptyDict == [k \in {} |-> None]

\* d restricted to the keys other than k (dict.pop(k) leaves this behind)
Without(d, k) == [n \in DOMAIN d \ {k} |-> d[n]]

\* dict.update: the entries of g win
Update(f, g) ==
    [k \in DOMAIN f \cup DOMAIN g |-> IF k \in DOMAIN g THEN g[k] ELSE f[k]]

\* all lists over S of length at most n
SeqsUpTo(S, n) == UNION {[1..k -> S] : k \in 0..n}

-----------------------------------------------------------------------------
(* _FunctionExecutor.Do: the inputs *)

Artifacts == {"art1", "art2"}

InputNames == {"a"}
OutputNames == {"b", "return_output"}
PropNames == {"p"}

\* a channel: List[tfx_types.Artifact]
Channels == SeqsUpTo(Artifacts, MaxChanLen)

\* exec_properties values are JSON texts; "{" is not valid JSON
JsonTexts == {"1", "\"1\"", "\"s\"", "{"}

\* The annotation of one argument of the step function:
\*   "InputArtifact"  Input[T], T a BaseArtifact subclass
\*   "InputOther"     Input[T], T not a BaseArtifact subclass
\*   "Output"         Output[T]
\*   "int", "str"     a primitive type: the argument is a parameter
Annotations == {"InputArtifact", "InputOther", "Output", "int", "str"}

\* The step functions: argument name -> annotation.
Signatures ==
    {s \in Dicts(InputNames \cup {"b"} \cup PropNames, Annotations) :
        /\ \A n \in DOMAIN s \cap InputNames : s[n] \in {"InputArtifact", "InputOther"}
        /\ \A n \in DOMAIN s \cap {"b"} : s[n] = "Output"
        /\ \A n \in DOMAIN s \cap PropNames : s[n] \in {"int", "str"}}

\* What the body of the step function does when it runs: it returns None,
\* returns a value, or raises.
Behaviours == {"None", "int:7", "raise"}

-----------------------------------------------------------------------------
(* json.loads and pydantic *)

JsonValid(s) == s \in {"1", "\"1\"", "\"s\""}

\* json.loads on a valid text
JsonLoads(s) ==
    CASE s = "1"     -> "int:1"
      [] s = "\"1\"" -> "str:1"
      [] s = "\"s\"" -> "str:s"

\* pydantic's validation of value v against a field of type t: the value the
\* field takes, or "invalid".  int and str fields coerce (pydantic v1).
Coerce(t, v) ==
    CASE t = "int" /\ v = "int:1" -> "int:1"
      [] t = "int" /\ v = "str:1" -> "int:1"
      [] t = "int" /\ v = "str:s" -> "invalid"
      [] t = "str" /\ v = "int:1" -> "str:1"
      [] t = "str" /\ v = "str:1" -> "str:1"
      [] t = "str" /\ v = "str:s" -> "str:s"

\* lines 88-98: the arguments that are neither Input- nor Output-annotated
ParamSpec(fn) ==
    [n \in {m \in DOMAIN fn : fn[m] \notin {"InputArtifact", "InputOther", "Output"}}
        |-> fn[n]]

\* line 100: every exec property decodes
AllJsonValid(exec_properties) ==
    \A k \in DOMAIN exec_properties : JsonValid(exec_properties[k])

NewExec(exec_properties) ==
    [k \in DOMAIN exec_properties |-> JsonLoads(exec_properties[k])]

\* lines 101-104: pydantic_c.parse_obj(new_exec) succeeds: every field of the
\* model is required, and its value must validate
ParseOk(param_spec, new_exec) ==
    \A k \in DOMAIN param_spec :
        /\ k \in DOMAIN new_exec
        /\ Coerce(param_spec[k], new_exec[k]) # "invalid"

\* lines 101-104: pydantic_c.parse_obj(new_exec).dict(): the fields of the
\* model only; other keys of new_exec are ignored
ParsedParams(param_spec, new_exec) ==
    [k \in DOMAIN param_spec |-> Coerce(param_spec[k], new_exec[k])]


-----------------------------------------------------------------------------
(* _FunctionExecutor.Do *)

\* lines 58-68 and 71-81: a channel must hold exactly one artifact
Singleton(artifact) == Len(artifact) = 1

\* lines 58-68: every channel of input_dict is a singleton
InputsOk(input_dict) == \A name \in DOMAIN input_dict : Singleton(input_dict[name])

\* line 70: output_dict.pop("return_output", None) found an entry
HasReturnArtifact(output_dict) == "return_output" \in DOMAIN output_dict

\* lines 70-81: what is left of output_dict after the pop is validated
OutputsOk(output_dict) ==
    \A name \in DOMAIN Without(output_dict, "return_output") :
        Singleton(output_dict[name])

\* lines 57-81: function_args after the two loops
ChannelArgs(input_dict, output_dict) ==
    Update([name \in DOMAIN input_dict |-> input_dict[name][1]],
           [name \in DOMAIN Without(output_dict, "return_output")
               |-> output_dict[name][1]])

\* lines 57-104: function_args as handed to the step function
FunctionArgs(input_dict, output_dict, exec_properties, fn) ==
    Update(ChannelArgs(input_dict, output_dict),
           ParsedParams(ParamSpec(fn), NewExec(exec_properties)))

\* lines 57-104: the exception raised before the step function is called,
\* "none" when line 106 is reached
PreCallExc(input_dict, output_dict, exec_properties, fn) ==
    CASE ~InputsOk(input_dict)                 -> "ValueError"
      [] InputsOk(input_dict) /\ ~OutputsOk(output_dict) -> "ValueError"
      [] InputsOk(input_dict) /\ OutputsOk(output_dict)
            /\ ~AllJsonValid(exec_properties)  -> "JSONDecodeError"
      [] InputsOk(input_dict) /\ OutputsOk(output_dict)
            /\ AllJsonValid(exec_properties)
            /\ ~ParseOk(ParamSpec(fn), NewExec(exec_properties))
                                               -> "ValidationError"
      [] OTHER                                 -> "none"

\* line 106: Python binds the keyword arguments to the function's arguments
\* (none has a default): a missing or an unexpected keyword is a TypeError
\* and the body does not run
BindOk(function_args, fn) == DOMAIN function_args = DOMAIN fn

\* The attributes of a Python list.  The values of output_dict are lists
\* (line 54), and so is return_artifact, the value popped at line 70.
ListAttributes == {"append", "extend", "insert", "pop", "remove", "index",
                   "count", "sort", "reverse", "copy", "clear"}

\* line 110: return_artifact.materializers.json.write(returns), on the list
\* popped at line 70
WriteReturn(return_artifact, returns) ==
    IF "materializers" \in ListAttributes
    THEN [exc |-> "none",
          writes |-> <<[artifact |-> return_artifact, value |-> returns]>>]
    ELSE [exc |-> "AttributeError", writes |-> <<>>]

\* lines 108-115: after the step function returned `returns`
AfterReturn(output_dict, returns) ==
    IF HasReturnArtifact(output_dict)
    THEN IF returns # None
         THEN WriteReturn(output_dict["return_output"], returns)
         ELSE [exc |-> "StepInterfaceError", writes |-> <<>>]
    ELSE IF returns # None
         THEN [exc |-> "StepInterfaceError", writes |-> <<>>]
         ELSE [exc |-> "none", writes |-> <<>>]

\* line 70: the caller's output_dict after Do (the pop removes the entry)
OutputDictAfter(input_dict, output_dict) ==
    IF InputsOk(input_dict) THEN Without(output_dict, "return_output")
    ELSE output_dict

\* A Do that calls the step function before it validates and parses.
PreCallFailureAfterCall(pre, input_dict, output_dict) ==
    [exc |-> pre, calls |-> 1, trace |-> <<"call">>, args |-> EmptyDict,
     returned |-> None, writes |-> <<>>,
     output_dict |-> OutputDictAfter(input_dict, output_dict)]

\* lines 57-104: Do raised `pre` before reaching line 106: the step function
\* was not called and nothing was written
PreCallFailure(pre, input_dict, output_dict) ==
    [exc |-> pre, calls |-> 0, trace |-> <<>>, args |-> EmptyDict,
     returned |-> None, writes |-> <<>>,
     output_dict |-> OutputDictAfter(input_dict, output_dict)]

\* lines 51-115: one call of Do.
\*   exc       the exception Do ends with ("none": it returns)
\*   calls     how often the body of the step function ran
\*   trace     the stages passed, in order
\*   args      the keyword arguments the step function was called with
\*   returned  what the step function returned
\*   writes    the writes to the return artifact
DoResult(input_dict, output_dict, exec_properties, fn, behaviour) ==
    LET pre == PreCallExc(input_dict, output_dict, exec_properties, fn)
    IN  IF pre # "none" THEN PreCallFailure(pre, input_dict, output_dict)
        ELSE
        LET function_args ==
                FunctionArgs(input_dict, output_dict, exec_properties, fn)
            checked == [exc |-> "none", calls |-> 0,
                        trace |-> <<"channels", "params">>,
                        args |-> EmptyDict, returned |-> None, writes |-> <<>>,
                        output_dict |-> Without(output_dict, "return_output")]
        IN  IF ~BindOk(function_args, fn)
            THEN [checked EXCEPT !.exc = "TypeError"]
            ELSE
            LET called == [checked EXCEPT !.calls = 1, !.args = function_args,
                                         !.trace = <<"channels", "params", "call">>]
            IN  IF behaviour = "raise"
                THEN [called EXCEPT !.exc = "StepError"]
                ELSE
                LET after == AfterReturn(output_dict, behaviour)
                IN  [called EXCEPT !.returned = behaviour,
                                   !.exc = after.exc,
                                   !.writes = after.writes]

NoCall == [input_dict |-> EmptyDict, output_dict |-> EmptyDict,
           exec_properties |-> EmptyDict, fn |-> EmptyDict, behaviour |-> None]

NoResult == [exc |-> "none", calls |-> 0, trace |-> <<>>, args |-> EmptyDict,
             returned |-> None, writes |-> <<>>, output_dict |-> EmptyDict]

DoInit ==
    /\ pc = "idle"
    /\ call = NoCall
    /\ res = NoResult

\* The executor is handed its channels and properties and runs Do.
Do ==
    /\ pc = "idle"
    /\ \E input_dict \in Dicts(InputNames, Channels),
          output_dict \in Dicts(OutputNames, Channels),
          exec_properties \in Dicts(PropNames, JsonTexts),
          fn \in Signatures,
          behaviour \in Behaviours :
            /\ call' = [input_dict |-> input_dict, output_dict |-> output_dict,
                        exec_properties |-> exec_properties, fn |-> fn,
                        behaviour |-> behaviour]
            /\ res' = DoResult(input_dict, output_dict, exec_properties, fn,
                               behaviour)
    /\ pc' = "done"
    /\ UNCHANGED notDo

\* The next execution starts from a fresh executor.
DoReset ==
    /\ pc = "done"
    /\ pc' = "idle"
    /\ call' = NoCall
    /\ res' = NoResult
    /\ UNCHANGED notDo

-----------------------------------------------------------------------------
(* mlflow_utils: the tracking backends and the processes that log to them *)

Procs == {"proc1", "proc2"}

ExperimentNames == {"exp1"}
RunNames == {"run1", "run2"}

\* repo.active_stack.artifact_store.path
ArtifactStorePath == "/repo/artifacts"

\* mlflow's tracking URI before any set_tracking_uri
DefaultUri == "./mlruns"
RemoteUri == "http://mlflow"

\* the backend_store_uri arguments of setup_mlflow; "" is the empty string
BackendStoreUris == {None, "", RemoteUri}

\* os.path.join
PathJoin(a, b) == a \o "/" \o b

\* lines 34-54: the URI local_mlflow_backend returns
LocalMlflowBackend == "file:" \o PathJoin(ArtifactStorePath, "mlruns")

\* lines 51-52: the directory local_mlflow_backend makes sure exists
LocalMlflowDir == PathJoin(ArtifactStorePath, "mlruns")

TrackingUris == {DefaultUri, RemoteUri, LocalMlflowBackend}

\* line 73: `not backend_store_uri` holds of None and of the empty string
Falsy(backend_store_uri) == backend_store_uri \in {None, ""}

\* A setup_mlflow that ignores the backend_store_uri it is given.
EffectiveUriAlwaysLocal(backend_store_uri) == LocalMlflowBackend

\* lines 73-76: the URI setup_mlflow hands to set_tracking_uri
EffectiveUri(backend_store_uri) ==
    IF Falsy(backend_store_uri) THEN LocalMlflowBackend ELSE backend_store_uri

\* lines 73-79: the SDK calls of setup_mlflow, in order
SetupCalls(backend_store_uri, experiment_name) ==
    <<[op |-> "set_tracking_uri", arg |-> EffectiveUri(backend_store_uri)],
      [op |-> "set_experiment", arg |-> experiment_name]>>

NoSetup == [given |-> None, experiment_name |-> None, calls |-> <<>>]
NoArgs == [experiment_name |-> None, run_name |-> None]
NoRun == [uri |-> None, experiment |-> None, run_id |-> 0, run_name |-> None]
NoReturn == [proc |-> None, experiment_name |-> None, run_name |-> None,
             exc |-> "none", run |-> NoRun, created |-> FALSE]

\* the call of process p ended: it raised exc, or returned run
Return(p, exc, run, created) ==
    [proc |-> p, experiment_name |-> mlargs[p].experiment_name,
     run_name |-> mlargs[p].run_name, exc |-> exc, run |-> run,
     created |-> created]

MlInit ==
    /\ tracking_uri = [p \in Procs |-> DefaultUri]
    /\ experiments = [u \in TrackingUris |-> {}]
    /\ runs = {}
    /\ dirs = {ArtifactStorePath}
    /\ setup = [p \in Procs |-> NoSetup]
    /\ mlpc = [p \in Procs |-> "idle"]
    /\ mlargs = [p \in Procs |-> NoArgs]
    /\ found = [p \in Procs |-> 0]
    /\ mlret = NoReturn

\* lines 57-79: setup_mlflow.  set_tracking_uri sets the process's URI;
\* set_experiment creates the experiment on that backend if it is not there.
SetupMlflow(p) ==
    /\ mlpc[p] = "idle"
    /\ \E backend_store_uri \in BackendStoreUris,
          experiment_name \in ExperimentNames :
         LET uri == EffectiveUri(backend_store_uri) IN
            /\ dirs' = IF Falsy(backend_store_uri)
                       THEN dirs \cup {LocalMlflowDir} ELSE dirs
            /\ tracking_uri' = [tracking_uri EXCEPT ![p] = uri]
            /\ experiments' = [experiments EXCEPT ![uri] = @ \cup {experiment_name}]
            /\ setup' = [setup EXCEPT ![p] =
                            [given |-> backend_store_uri,
                             experiment_name |-> experiment_name,
                             calls |-> SetupCalls(backend_store_uri,
                                                  experiment_name)]]
    /\ UNCHANGED <<runs, mlpc, mlargs, found, mlret>>
    /\ UNCHANGED notMl

\* lines 102-107: get_experiment_by_name.  It returns None for an experiment
\* the backend does not hold, and mlflow_experiment.experiment_id then raises
\* AttributeError.
GetExperiment(p) ==
    /\ mlpc[p] = "idle"
    /\ \E experiment_name \in ExperimentNames, run_name \in RunNames :
         IF experiment_name \in experiments[tracking_uri[p]]
         THEN /\ mlargs' = [mlargs EXCEPT ![p] =
                               [experiment_name |-> experiment_name,
                                run_name |-> run_name]]
              /\ mlpc' = [mlpc EXCEPT ![p] = "got_experiment"]
              /\ mlret' = mlret
         ELSE /\ mlargs' = mlargs
              /\ mlpc' = mlpc
              /\ mlret' = [proc |-> p, experiment_name |-> experiment_name,
                           run_name |-> run_name, exc |-> "AttributeError",
                           run |-> NoRun, created |-> FALSE]
    /\ UNCHANGED <<tracking_uri, experiments, runs, dirs, setup, found>>
    /\ UNCHANGED notMl

\* A search without the filter on the run name.
MatchingRunsAnyName(uri, experiment_name, run_name) ==
    {r \in runs : r.uri = uri /\ r.experiment = experiment_name}

\* lines 106-110: the runs search_runs returns: those of the experiment whose
\* mlflow.runName tag is run_name
MatchingRuns(uri, experiment_name, run_name) ==
    {r \in runs : /\ r.uri = uri
                  /\ r.experiment = experiment_name
                  /\ r.run_name = run_name}

\* lines 106-112: search_runs; runs[0] is any of the runs returned
SearchRuns(p) ==
    /\ mlpc[p] = "got_experiment"
    /\ LET matching == MatchingRuns(tracking_uri[p], mlargs[p].experiment_name,
                                    mlargs[p].run_name)
       IN  IF matching = {}
           THEN found' = [found EXCEPT ![p] = 0]
           ELSE \E r \in matching : found' = [found EXCEPT ![p] = r.run_id]
    /\ mlpc' = [mlpc EXCEPT ![p] = "searched"]
    /\ UNCHANGED <<tracking_uri, experiments, runs, dirs, setup, mlargs, mlret>>
    /\ UNCHANGED notMl

\* lines 116-118: the run start_run(run_name=...) creates, under a fresh id
NewRun(p) ==
    [uri |-> tracking_uri[p], experiment |-> mlargs[p].experiment_name,
     run_id |-> Cardinality(runs) + 1, run_name |-> mlargs[p].run_name]

\* lines 111-118: whether the call creates a run: the search returned none
CreatesRun(p) == found[p] = 0

\* A start_run that searches again and creates a run only if there still is
\* none of that name.
StartRunRechecked(p) ==
    /\ mlpc[p] = "searched"
    /\ LET matching == MatchingRuns(tracking_uri[p], mlargs[p].experiment_name,
                                    mlargs[p].run_name)
       IN  IF matching = {}
           THEN /\ Cardinality(runs) < MaxRuns
                /\ runs' = runs \cup {NewRun(p)}
                /\ mlret' = Return(p, "none", NewRun(p), TRUE)
           ELSE /\ runs' = runs
                /\ mlret' = Return(p, "none", CHOOSE r \in matching : TRUE, FALSE)
    /\ mlpc' = [mlpc EXCEPT ![p] = "idle"]
    /\ mlargs' = [mlargs EXCEPT ![p] = NoArgs]
    /\ found' = [found EXCEPT ![p] = 0]
    /\ UNCHANGED <<tracking_uri, experiments, dirs, setup>>
    /\ UNCHANGED notMl

\* lines 111-118: start_run, by run_id when the search returned a run and by
\* run_name when it returned none
StartRun(p) ==
    /\ mlpc[p] = "searched"
    /\ IF CreatesRun(p)
       THEN /\ Cardinality(runs) < MaxRuns
            /\ runs' = runs \cup {NewRun(p)}
            /\ mlret' = Return(p, "none", NewRun(p), TRUE)
       ELSE /\ runs' = runs
            /\ mlret' = Return(p, "none",
                               CHOOSE r \in runs : r.run_id = found[p], FALSE)
    /\ mlpc' = [mlpc EXCEPT ![p] = "idle"]
    /\ mlargs' = [mlargs EXCEPT ![p] = NoArgs]
    /\ found' = [found EXCEPT ![p] = 0]
    /\ UNCHANGED <<tracking_uri, experiments, dirs, setup>>
    /\ UNCHANGED notMl

MlStep(p) == SetupMlflow(p) \/ GetExperiment(p) \/ SearchRuns(p) \/ StartRun(p)

-----------------------------------------------------------------------------
(* BaseConfig *)

\* the instances: two of one settings class, one of another
Instances == {"config1", "config2", "config3"}

ConfigClass(i) == IF i = "config3" THEN "AnalyticsConfig" ELSE "GlobalConfig"

\* lines 49-53: get_config_dir, as the subclasses implement it
GetConfigDir(class) == "/home/.config/zenml"

\* lines 55-59: get_config_file_name, as the subclasses implement it
GetConfigFileName(class) ==
    IF class = "GlobalConfig" THEN "global.yaml" ELSE "analytics.yaml"

\* lines 68-70: get_config_path
GetConfigPath(i) ==
    PathJoin(GetConfigDir(ConfigClass(i)), GetConfigFileName(ConfigClass(i)))

ConfigPaths == {GetConfigPath(i) : i \in Instances}

\* the declared fields of the settings classes, in YAML's (sorted) key order
FieldOrder == <<"analytics_opt_in", "user_id">>
Fields == {FieldOrder[n] : n \in DOMAIN FieldOrder}

\* a name that is not a declared field
UndeclaredNames == {"nickname"}

FieldValues == {"v1", "v2"}

\* an instance before __init__ has no attributes
NotConstructed == EmptyDict

Constructed(i) == DOMAIN attrs[i] # {}

\* a path without a file, and a file holding YAML document doc
NoFile == [exists |-> FALSE, doc |-> <<>>]
File(doc) == [exists |-> TRUE, doc |-> doc]
NoOp == [instance |-> None, op |-> None, ok |-> FALSE]

\* yaml_utils.write_yaml's document for dict d: one <<key, value>> line per
\* key, in key order
YamlDump(d) == [n \in DOMAIN FieldOrder |-> <<FieldOrder[n], d[FieldOrder[n]]>>]

\* the dict a YAML document reads back as
YamlLoad(doc) ==
    [k \in {doc[n][1] : n \in DOMAIN doc} |->
        doc[CHOOSE n \in DOMAIN doc : doc[n][1] = k][2]]

\* path_utils.file_exists
FileExists(fs, path) == fs[path].exists

\* path_utils.create_file_if_not_exists: an empty file
CreateFileIfNotExists(fs, path) ==
    IF ~fs[path].exists THEN [fs EXCEPT ![path] = File(<<>>)] ELSE fs

\* yaml_utils.write_yaml: the file's content becomes the document
WriteYaml(fs, path, d) == [fs EXCEPT ![path] = File(YamlDump(d))]

\* A _dump that writes only when it has just created the file.
DumpOnlyNewFile(fs, i, d) ==
    IF ~FileExists(fs, GetConfigPath(i))
    THEN WriteYaml(CreateFileIfNotExists(fs, GetConfigPath(i)), GetConfigPath(i), d)
    ELSE fs

\* lines 61-66: _dump of instance i whose self.dict() is d
Dump(fs, i, d) ==
    LET config_path == GetConfigPath(i)
        created == IF ~FileExists(fs, config_path)
                   THEN CreateFileIfNotExists(fs, config_path) ELSE fs
    IN  WriteYaml(created, config_path, d)

CfgInit ==
    /\ attrs = [i \in Instances |-> NotConstructed]
    /\ files = [path \in ConfigPaths |-> NoFile]
    /\ lastOp = NoOp

\* lines 35-38: __init__.  BaseSettings.__init__ fills every field from the
\* keyword arguments, the YAML source, the environment or the default; then
\* the instance is dumped.
ConfigInit(i) ==
    /\ ~Constructed(i)
    /\ \E data \in [Fields -> FieldValues] :
         /\ attrs' = [attrs EXCEPT ![i] = data]
         /\ files' = Dump(files, i, data)
    /\ lastOp' = [instance |-> i, op |-> "__init__", ok |-> TRUE]
    /\ UNCHANGED notCfg

\* lines 40-47: __setattr__.  BaseModel.__setattr__ raises ValueError for a
\* name that is not a field, and _dump is not reached.
ConfigSetAttr(i) ==
    /\ Constructed(i)
    /\ \E name \in Fields \cup UndeclaredNames, value \in FieldValues :
         IF name \in Fields
         THEN /\ attrs' = [attrs EXCEPT ![i] = [@ EXCEPT ![name] = value]]
              /\ files' = Dump(files, i, [attrs[i] EXCEPT ![name] = value])
              /\ lastOp' = [instance |-> i, op |-> "__setattr__", ok |-> TRUE]
         ELSE /\ UNCHANGED <<attrs, files>>
              /\ lastOp' = [instance |-> i, op |-> "__setattr__", ok |-> FALSE]
    /\ UNCHANGED notCfg

NextConfig == \E i \in Instances : ConfigInit(i) \/ ConfigSetAttr(i)

-----------------------------------------------------------------------------
(* tests/integration/conftest.py: the profile fixtures *)

\* the stack of the base profile and the stack shared_kubeflow_profile
\* registers (line 89)
StackNames == {"default", "aws_kubeflow_stack"}

\* what the pipeline run of a test leaves in the stores
Items == {"item1", "item2"}

EmptyStores == [artifacts |-> {}, metadata |-> {}]

FxInit ==
    /\ fxpc = "session"
    /\ active_stack = "default"
    /\ provisioned = FALSE
    /\ stored = [st \in StackNames |-> EmptyStores]
    \* the local store's directory exists; "s3://zenbytes-bucket" (line 28)
    \* is no path of the local file system
    /\ path_exists = [st \in StackNames |-> st = "default"]
    /\ received = EmptyStores

\* lines 32-103: shared_kubeflow_profile up to its yield
SharedKubeflowProfile ==
    /\ fxpc = "session"
    /\ fxpc' = "kubeflow_module"
    /\ active_stack' = "aws_kubeflow_stack"
    /\ provisioned' = TRUE
    /\ UNCHANGED <<stored, path_exists, received>>
    /\ UNCHANGED notFx

\* lines 105-106: shared_kubeflow_profile after its yield; the next module
\* starts from the base profile again
SharedKubeflowProfileEnd ==
    /\ fxpc = "kubeflow_module"
    /\ fxpc' = "session"
    /\ active_stack' = "default"
    /\ provisioned' = FALSE
    /\ UNCHANGED <<stored, path_exists, received>>
    /\ UNCHANGED notFx

\* lines 109-118: what cleanup_active_profile leaves in the stores of stack
\* st: the tree at artifact_store.path is removed if the path exists
CleanupActiveProfile(st) ==
    IF path_exists[st]
    THEN [stored EXCEPT ![st].artifacts = {}]
    ELSE stored

\* lines 121-141: clean_kubeflow_profile up to its yield (the call of
\* cleanup_active_profile at line 139 is commented out)
CleanKubeflowProfile ==
    /\ fxpc = "kubeflow_module"
    /\ fxpc' = "kubeflow_test"
    /\ received' = stored[active_stack]
    /\ UNCHANGED <<active_stack, provisioned, stored, path_exists>>
    /\ UNCHANGED notFx

\* lines 144-160: clean_base_profile up to its yield
CleanBaseProfile ==
    /\ fxpc = "session"
    /\ fxpc' = "base_test"
    /\ stored' = CleanupActiveProfile(active_stack)
    /\ path_exists' = [path_exists EXCEPT ![active_stack] = FALSE]
    /\ received' = CleanupActiveProfile(active_stack)[active_stack]
    /\ UNCHANGED <<active_stack, provisioned>>
    /\ UNCHANGED notFx

\* the test runs a pipeline on the active stack, which stores its artifacts
\* and their metadata
TestStores ==
    /\ fxpc \in {"kubeflow_test", "base_test"}
    /\ \E item \in Items :
         stored' = [stored EXCEPT
                       ![active_stack].artifacts = @ \cup {item},
                       ![active_stack].metadata = @ \cup {item}]
    /\ path_exists' = [path_exists EXCEPT
                          ![active_stack] = active_stack = "default"]
    /\ UNCHANGED <<fxpc, active_stack, provisioned, received>>
    /\ UNCHANGED notFx

\* the test function returns and the function-scoped fixture ends
TestEnds ==
    /\ fxpc \in {"kubeflow_test", "base_test"}
    /\ fxpc' = IF fxpc = "kubeflow_test" THEN "kubeflow_module" ELSE "session"
    /\ UNCHANGED <<active_stack, provisioned, stored, path_exists, received>>
    /\ UNCHANGED notFx

NextFixtures ==
    \/ SharedKubeflowProfile
    \/ SharedKubeflowProfileEnd
    \/ CleanKubeflowProfile
    \/ CleanBaseProfile
    \/ TestStores
    \/ TestEnds

-----------------------------------------------------------------------------
(* generate_component *)

StepClassNames == {"Trainer", "Evaluator"}
StepInputKeys == {"in1", "in2"}
StepOutputKeys == {"out1", "return_output"}
StepParamKeys == {"p", "q"}
ArtifactTypes == {"DataArtifact", "ModelArtifact"}
PrimitiveTypes == {"int", "str", "float"}

\* the process functions of the steps
ProcessFunctions == {"process_a", "process_b"}

\* the steps: class name, module, INPUT_SPEC, OUTPUT_SPEC, PARAM_SPEC, process
Steps ==
    [class_name : StepClassNames,
     module : {"pipeline_module"},
     INPUT_SPEC : Dicts(StepInputKeys, ArtifactTypes),
     OUTPUT_SPEC : Dicts(StepOutputKeys, ArtifactTypes),
     PARAM_SPEC : Dicts(StepParamKeys, PrimitiveTypes),
     process : ProcessFunctions]

NoStep == [class_name |-> None]
NoComponent == [name |-> None]

\* lines 120-123: component_spec.ChannelParameter(type=artifact_type)
ChannelParameter(artifact_type) ==
    [kind |-> "ChannelParameter", type |-> artifact_type]

\* A parameter declared with the step's primitive type.
ExecutionParameterOfType(prim_type) ==
    [kind |-> "ExecutionParameter", type |-> prim_type]

\* lines 124-125: component_spec.ExecutionParameter(type=str), whatever
\* prim_type is
ExecutionParameter(prim_type) ==
    [kind |-> "ExecutionParameter", type |-> "str"]

\* lines 119-135: component_spec_class
ComponentSpecClass(s) ==
    [name |-> s.class_name \o "_Spec",
     INPUTS |-> [key \in DOMAIN s.INPUT_SPEC |-> ChannelParameter(s.INPUT_SPEC[key])],
     OUTPUTS |-> [key \in DOMAIN s.OUTPUT_SPEC |-> ChannelParameter(s.OUTPUT_SPEC[key])],
     PARAMETERS |-> [key \in DOMAIN s.PARAM_SPEC |-> ExecutionParameter(s.PARAM_SPEC[key])]]

\* lines 137-144: executor_class
ExecutorClass(s) ==
    [name |-> s.class_name \o "_Executor",
     base |-> "_FunctionExecutor",
     _FUNCTION |-> s.process,
     module |-> s.module]

\* lines 118-159: the class generate_component returns
GenerateComponentClass(s) ==
    [name |-> s.class_name,
     base |-> "_SimpleComponent",
     SPEC_CLASS |-> ComponentSpecClass(s),
     EXECUTOR_SPEC |-> [executor_class |-> ExecutorClass(s)],
     module |-> s.module]

GenInit ==
    /\ step = NoStep
    /\ component = NoComponent
    /\ module_attrs = EmptyDict

\* lines 118-159: generate_component(step); line 147 sets the executor class
\* as an attribute of the step's module
GenerateComponent ==
    /\ component = NoComponent
    /\ \E s \in Steps :
         /\ step' = s
         /\ component' = GenerateComponentClass(s)
         /\ module_attrs' = Update(module_attrs,
                [n \in {s.class_name \o "_Executor"} |-> ExecutorClass(s)])
    /\ UNCHANGED notGen

\* the component is handed to the pipeline; the next step is generated
GenerateNext ==
    /\ component # NoComponent
    /\ step' = NoStep
    /\ component' = NoComponent
    /\ UNCHANGED module_attrs
    /\ UNCHANGED notGen

NextGenerate == GenerateComponent \/ GenerateNext

Init == DoInit /\ MlInit /\ CfgInit /\ FxInit /\ GenInit

Next == Do \/ DoReset

Spec == Init /\ [][Next]_vars

\* Processes that call setup_mlflow and get_or_create_mlflow_run concurrently.
NextMlflow == \E p \in Procs : MlStep(p)

SpecMlflow == Init /\ [][NextMlflow]_vars

\* no process other than p is inside get_or_create_mlflow_run
OthersIdle(p) == \A q \in Procs \ {p} : mlpc[q] = "idle"

\* The same calls made one after the other: a process takes a step only
\* while no other process is inside get_or_create_mlflow_run.
NextMlflowSeq ==
    \E p \in Procs :
        \/ OthersIdle(p) /\ SetupMlflow(p)
        \/ OthersIdle(p) /\ GetExperiment(p)
        \/ OthersIdle(p) /\ SearchRuns(p)
        \/ OthersIdle(p) /\ StartRun(p)

SpecMlflowSeq == Init /\ [][NextMlflowSeq]_vars

\* Instances of the settings classes are constructed and assigned to.
SpecConfig == Init /\ [][NextConfig]_vars

\* A test session that uses the profile fixtures.
SpecFixtures == Init /\ [][NextFixtures]_vars

\* Steps are turned into components.
SpecGenerate == Init /\ [][NextGenerate]_vars

-----------------------------------------------------------------------------
(* Claims about _FunctionExecutor.Do *)

\* every channel of the call, 'return_output' included, holds one artifact
AllChannelsSingleton ==
    /\ \A n \in DOMAIN call.input_dict : Len(call.input_dict[n]) = 1
    /\ \A n \in DOMAIN call.output_dict : Len(call.output_dict[n]) = 1

\* the step function ran and returned
ReturnedNormally == res.calls = 1 /\ call.behaviour # "raise"

ReturnDeclared == "return_output" \in DOMAIN call.output_dict

\* the declared outputs and the actual return value disagree
Disagree ==
    \/ ReturnDeclared /\ call.behaviour = None
    \/ ~ReturnDeclared /\ call.behaviour # None

\* C1: when all channels are valid and the step function returns normally,
\* Do raises StepInterfaceError if and only if a 'return_output' entry is
\* present and the function returned None, or none is present and the
\* function returned a value; when the two agree Do completes without raising.
C1_StepInterfaceErrorIffDisagree ==
    (pc = "done" /\ AllChannelsSingleton /\ ReturnedNormally) =>
        /\ (res.exc = "StepInterfaceError") <=> Disagree
        /\ ~Disagree => res.exc = "none"

\* C2: if any channel of input_dict or of output_dict holds a list whose
\* length is not exactly 1, Do raises ValueError.
C2_NonSingletonRaisesValueError ==
    (pc = "done" /\ ~AllChannelsSingleton) => res.exc = "ValueError"

\* the declarations of the call match the step function: every channel is a
\* singleton, the input channels are the Input arguments, the output channels
\* other than 'return_output' the Output arguments, the execution properties
\* the parameters, each holding a JSON value of the declared type
MatchingDeclarations ==
    /\ AllChannelsSingleton
    /\ DOMAIN call.input_dict =
         {n \in DOMAIN call.fn : call.fn[n] \in {"InputArtifact", "InputOther"}}
    /\ DOMAIN call.output_dict \ {"return_output"} =
         {n \in DOMAIN call.fn : call.fn[n] = "Output"}
    /\ DOMAIN call.exec_properties =
         {n \in DOMAIN call.fn : call.fn[n] \in {"int", "str"}}
    /\ \A k \in DOMAIN call.exec_properties :
         \/ call.fn[k] = "int" /\ call.exec_properties[k] = "1"
         \/ call.fn[k] = "str" /\ call.exec_properties[k] \in {"\"1\"", "\"s\""}

\* C3: given matching declarations, the step function receives under each
\* channel's name the single artifact of the channel, under each property's
\* name its JSON-decoded value, and a non-None return value is written
\* unchanged to the artifact of the 'return_output' channel.
C3_ValuesPassThroughUnchanged ==
    (pc = "done" /\ MatchingDeclarations /\ call.behaviour # "raise") =>
        /\ res.calls = 1
        /\ \A n \in DOMAIN call.input_dict :
              res.args[n] = call.input_dict[n][1]
        /\ \A n \in DOMAIN call.output_dict \ {"return_output"} :
              res.args[n] = call.output_dict[n][1]
        /\ \A k \in DOMAIN call.exec_properties :
              res.args[k] = JsonLoads(call.exec_properties[k])
        /\ (ReturnDeclared /\ call.behaviour # None) =>
              /\ Len(res.writes) = 1
              /\ res.writes[1].artifact = call.output_dict["return_output"][1]
              /\ res.writes[1].value = call.behaviour

\* a channel that Do validates (every one but 'return_output') is not a
\* singleton
SomeValidatedChannelBad ==
    \/ \E n \in DOMAIN call.input_dict : Len(call.input_dict[n]) # 1
    \/ \E n \in DOMAIN call.output_dict \ {"return_output"} :
          Len(call.output_dict[n]) # 1

\* an execution property does not decode, or a parameter of the step function
\* is missing from exec_properties or does not validate
SomeParamBad ==
    \/ \E k \in DOMAIN call.exec_properties : call.exec_properties[k] = "{"
    \/ \E n \in DOMAIN call.fn :
          /\ call.fn[n] \in {"int", "str"}
          /\ \/ n \notin DOMAIN call.exec_properties
             \/ call.fn[n] = "int" /\ call.exec_properties[n] = "\"s\""

C11_ReturnWrittenOnceOnlyWhenDeclared ==
    pc = "done" =>
        /\ res.exc = "StepInterfaceError" => Len(res.writes) = 0
        /\ Len(res.writes) > 0 =>
              /\ ReturnDeclared
              /\ ReturnedNormally
              /\ call.behaviour # None
        /\ (ReturnDeclared /\ ReturnedNormally /\ call.behaviour # None) =>
              Len(res.writes) = 1
        /\ (res.exc = "StepInterfaceError" /\ ~ReturnDeclared) =>
              /\ res.calls = 1
              /\ res.returned = call.behaviour

-----------------------------------------------------------------------------
(* Claims about mlflow_utils *)

\* the runs named run_name that the experiment of process p's call holds
ExistingRuns(p) ==
    {r \in runs : /\ r.uri = tracking_uri[p]
                  /\ r.experiment = mlargs[p].experiment_name
                  /\ r.run_name = mlargs[p].run_name}

\* process p takes the last step of get_or_create_mlflow_run
StartsRun(p) == mlpc[p] = "searched" /\ mlpc'[p] = "idle"

\* an experiment holds at most one run of a name
UniqueRunNames ==
    \A r1, r2 \in runs :
        (/\ r1.uri = r2.uri
         /\ r1.experiment = r2.experiment
         /\ r1.run_name = r2.run_name) => r1.run_id = r2.run_id

\* the run a call returned is a run of the requested experiment and name
ReturnedRunAsRequested ==
    (mlret.proc # None /\ mlret.exc = "none") =>
        /\ mlret.run \in runs
        /\ mlret.run.run_name = mlret.run_name
        /\ mlret.run.experiment = mlret.experiment_name

\* C4: in a sequence of non-overlapping calls against an existing experiment,
\* get_or_create_mlflow_run starts a new run only if the experiment holds no
\* run of the requested name and otherwise resumes an existing run of that
\* name; so the experiment holds at most one run per name, and every returned
\* run has the requested name.
C4_GetOrCreateReusesRun ==
    /\ [](UniqueRunNames /\ ReturnedRunAsRequested)
    /\ [][\A p \in Procs : StartsRun(p) =>
            /\ runs' # runs => ExistingRuns(p) = {}
            /\ ExistingRuns(p) # {} =>
                  /\ runs' = runs
                  /\ mlret'.run \in ExistingRuns(p)
                  /\ ~mlret'.created
            /\ ExistingRuns(p) = {} =>
                  /\ mlret'.run \notin runs
                  /\ runs' = runs \cup {mlret'.run}
                  /\ mlret'.run.uri = tracking_uri[p]
                  /\ mlret'.run.experiment = mlargs[p].experiment_name
                  /\ mlret'.run.run_name = mlargs[p].run_name
                  /\ mlret'.created]_vars

\* a call has just reused the run of its name while the experiment also
\* holds a run of another name
C4_Witness ==
    /\ mlret.proc # None
    /\ mlret.exc = "none"
    /\ ~mlret.created
    /\ mlret.run \in runs
    /\ \E r \in runs : /\ r.uri = mlret.run.uri
                       /\ r.experiment = mlret.run.experiment
                       /\ r.run_name # mlret.run.run_name

\* C5: get_or_create_mlflow_run is not race condition proof: it takes no lock
\* and does not check again between search_runs and start_run, so a process
\* whose search found no run creates one whatever the experiment holds by
\* then; with two processes the experiment can come to hold two runs of the
\* same name with different ids (C5_Witness).
C5_NoRecheckBeforeStartRun ==
    [][\A p \in Procs : (StartsRun(p) /\ found[p] = 0) =>
            /\ mlret'.created
            /\ mlret'.run \notin runs
            /\ runs' = runs \cup {mlret'.run}]_vars

\* two runs of one experiment with the same name and different ids
C5_Witness ==
    \E r1, r2 \in runs :
        /\ r1.uri = r2.uri
        /\ r1.experiment = r2.experiment
        /\ r1.run_name = r2.run_name
        /\ r1.run_id # r2.run_id

\* the URI setup_mlflow is to set for the backend_store_uri it was given
ExpectedUri(given) ==
    IF given = None \/ given = "" THEN "file:/repo/artifacts/mlruns" ELSE given

\* C7: setup_mlflow sets the tracking URI once and before the one call of
\* set_experiment; the URI is the given backend_store_uri when it is
\* non-empty and the local backend URI when it is None or empty;
\* set_experiment gets experiment_name, so that a following
\* get_or_create_mlflow_run with that experiment_name finds the experiment.
C7_SetupUriThenExperiment ==
    /\ [](\A p \in Procs : setup[p] # NoSetup =>
            /\ setup[p].calls =
                 <<[op |-> "set_tracking_uri", arg |-> ExpectedUri(setup[p].given)],
                   [op |-> "set_experiment", arg |-> setup[p].experiment_name]>>
            /\ tracking_uri[p] = ExpectedUri(setup[p].given)
            /\ setup[p].experiment_name \in experiments[tracking_uri[p]])
    /\ [][\A p \in Procs :
            (/\ setup[p] # NoSetup
             /\ mlret' # mlret
             /\ mlret'.proc = p
             /\ mlret'.experiment_name = setup[p].experiment_name)
                => mlret'.exc # "AttributeError"]_vars

\* a process set up the remote backend, another the local one, and a call
\* after the setup found the experiment and returned a run
C7_Witness ==
    /\ \E p \in Procs : setup[p] # NoSetup /\ setup[p].given = ""
    /\ \E p \in Procs : setup[p] # NoSetup /\ setup[p].given = RemoteUri
    /\ mlret.proc # None
    /\ mlret.exc = "none"
    /\ mlret.experiment_name = setup[mlret.proc].experiment_name

-----------------------------------------------------------------------------
(* Claims about BaseConfig *)

\* C6: after the constructor returns and after every successful attribute
\* assignment on any instance, the YAML file at get_config_path() exists and
\* its content equals the instance's current full attribute dict: the last
\* write wins and no assignment is left unpersisted.
C6_PersistedAfterEveryMutation ==
    (lastOp.instance # None /\ lastOp.ok) =>
        /\ files[GetConfigPath(lastOp.instance)].exists
        /\ YamlLoad(files[GetConfigPath(lastOp.instance)].doc)
              = attrs[lastOp.instance]

\* an assignment has just been persisted over the file that another instance
\* of the same class, holding other values, had written
C6_Witness ==
    /\ lastOp.instance # None
    /\ lastOp.op = "__setattr__"
    /\ lastOp.ok
    /\ \E j \in Instances \ {lastOp.instance} :
          /\ GetConfigPath(j) = GetConfigPath(lastOp.instance)
          /\ Constructed(j)
          /\ attrs[j] # attrs[lastOp.instance]

-----------------------------------------------------------------------------
(* Claims about the fixtures *)

\* C8: every time clean_kubeflow_profile is entered, what earlier tests
\* stored in the active stack's artifact store and metadata store is cleaned
\* up before the repository is yielded: the test receives empty stores.
C8_KubeflowFixtureYieldsCleanStores ==
    fxpc = "kubeflow_test" =>
        /\ received.artifacts = {}
        /\ received.metadata = {}

-----------------------------------------------------------------------------
(* Claims about generate_component *)

\* C9: the generated spec's INPUTS and OUTPUTS have the keys of the step's
\* INPUT_SPEC and OUTPUT_SPEC, each a channel parameter of the declared
\* artifact type; its PARAMETERS have the keys of PARAM_SPEC, each an
\* execution parameter of type string whatever type the step declared; the
\* generated executor's _FUNCTION is step.process.
C9_ComponentMirrorsStep ==
    component.name # None =>
        LET spec == component.SPEC_CLASS IN
        /\ DOMAIN spec.INPUTS = DOMAIN step.INPUT_SPEC
        /\ \A k \in DOMAIN step.INPUT_SPEC :
              spec.INPUTS[k] = [kind |-> "ChannelParameter",
                                type |-> step.INPUT_SPEC[k]]
        /\ DOMAIN spec.OUTPUTS = DOMAIN step.OUTPUT_SPEC
        /\ \A k \in DOMAIN step.OUTPUT_SPEC :
              spec.OUTPUTS[k] = [kind |-> "ChannelParameter",
                                 type |-> step.OUTPUT_SPEC[k]]
        /\ DOMAIN spec.PARAMETERS = DOMAIN step.PARAM_SPEC
        /\ \A k \in DOMAIN step.PARAM_SPEC :
              spec.PARAMETERS[k] = [kind |-> "ExecutionParameter",
                                    type |-> "str"]
        /\ component.EXECUTOR_SPEC.executor_class._FUNCTION = step.process

\* a component generated from a step with inputs, outputs and parameters
\* declared int and float
C9_Witness ==
    /\ component.name # None
    /\ DOMAIN step.INPUT_SPEC = StepInputKeys
    /\ DOMAIN step.OUTPUT_SPEC = StepOutputKeys
    /\ DOMAIN step.PARAM_SPEC = StepParamKeys
    /\ step.PARAM_SPEC["p"] = "int"
    /\ step.PARAM_SPEC["q"] = "float"
    /\ component.SPEC_CLASS.PARAMETERS["p"].type = "str"

=============================================================================
